---- MODULE Spec2Model ----
(***************************************************************************)
(* Model of salesforce-metadata-api-project/server.js: the                 *)
(* POST /create-metadata handler (validation, staging of the three         *)
(* descriptor documents in ./mdapioutput, launch of the deployment         *)
(* subprocess and its callback) and the pure descriptor generators.        *)
(*                                                                         *)
(* A text document is modelled as the sequence of its lines; joining with  *)
(* '\n' is concatenation of line sequences.  JavaScript values of a parsed *)
(* JSON body are tagged records, so that truthiness, Array.isArray,        *)
(* property access and template-literal string conversion are computed as  *)
(* the language computes them.                                             *)
(***************************************************************************)
EXTENDS Integers, Sequences, FiniteSets, TLC

----------------------------------------------------------------------------
(* JavaScript values. *)

Undef == [t |-> "undefined"]
Null == [t |-> "null"]
Str(s) == [t |-> "string", s |-> s]
Num(n) == [t |-> "number", n |-> n]
Arr(a) == [t |-> "array", a |-> a]
Obj(o) == [t |-> "object", o |-> o]
Fn(s) == [t |-> "function", s |-> s]

\* The operand of `!x` / `x || y`: false for undefined, null, "" and 0.
Truthy(v) ==
    CASE v.t = "undefined" -> FALSE
      [] v.t = "null" -> FALSE
      [] v.t = "string" -> v.s # ""
      [] v.t = "number" -> v.n # 0
      [] OTHER -> TRUE

IsArray(v) == v.t = "array"

\* String conversion of a value interpolated in a template literal or used
\* as a property key.
RECURSIVE JSString(_)
RECURSIVE JoinComma(_)
JoinComma(a) ==
    IF a = <<>> THEN ""
    ELSE LET h == IF Head(a).t \in {"undefined", "null"} THEN "" ELSE JSString(Head(a))
         IN IF Len(a) = 1 THEN h ELSE h \o "," \o JoinComma(Tail(a))

JSString(v) ==
    CASE v.t = "string" -> v.s
      [] v.t = "number" -> ToString(v.n)
      [] v.t = "undefined" -> "undefined"
      [] v.t = "null" -> "null"
      [] v.t = "array" -> JoinComma(v.a)
      [] v.t = "object" -> "[object Object]"
      [] v.t = "function" -> v.s

\* field.name / field.label / field.type: reading a property of null throws a
\* TypeError; of a string, number or array it yields undefined.
PropThrows(v) == v.t \in {"null", "undefined"}

Prop(v, p) ==
    IF v.t = "object" /\ p \in DOMAIN v.o THEN v.o[p] ELSE Undef

----------------------------------------------------------------------------
(* The descriptor generators. *)

\* The own properties of the typeMap literal.
typeMap ==
    [Text |-> "Text", TextArea |-> "TextArea", Date |-> "Date",
     DateTime |-> "DateTime", Number |-> "Number", Checkbox |-> "Checkbox",
     Picklist |-> "Picklist", Email |-> "Email", Phone |-> "Phone",
     URL |-> "Url"]

\* What typeMap[key] finds on the prototype of an object literal when key is
\* no own property: the members of Object.prototype.
ObjectPrototype ==
    ("constructor" :> Fn("function Object() { [native code] }"))
    @@ ("toString" :> Fn("function toString() { [native code] }"))
    @@ ("toLocaleString" :> Fn("function toLocaleString() { [native code] }"))
    @@ ("valueOf" :> Fn("function valueOf() { [native code] }"))
    @@ ("hasOwnProperty" :> Fn("function hasOwnProperty() { [native code] }"))
    @@ ("isPrototypeOf" :> Fn("function isPrototypeOf() { [native code] }"))
    @@ ("propertyIsEnumerable" :> Fn("function propertyIsEnumerable() { [native code] }"))
    @@ ("__defineGetter__" :> Fn("function __defineGetter__() { [native code] }"))
    @@ ("__defineSetter__" :> Fn("function __defineSetter__() { [native code] }"))
    @@ ("__lookupGetter__" :> Fn("function __lookupGetter__() { [native code] }"))
    @@ ("__lookupSetter__" :> Fn("function __lookupSetter__() { [native code] }"))
    @@ ("__proto__" :> Obj([inherited |-> TRUE]))

\* The fallback left out: an unknown type resolves to undefined.
getFieldTypeNoFallback(type) ==
    LET key == JSString(type)
    IN IF key \in DOMAIN typeMap THEN Str(typeMap[key])
       ELSE IF key \in DOMAIN ObjectPrototype THEN ObjectPrototype[key]
       ELSE Undef

\* A slip in the table: 'DateTime' mapped to 'Date'.
getFieldTypeDateTimeAsDate(type) ==
    LET key == JSString(type)
        found == IF key = "DateTime" THEN Str("Date")
                 ELSE IF key \in DOMAIN typeMap THEN Str(typeMap[key])
                 ELSE IF key \in DOMAIN ObjectPrototype THEN ObjectPrototype[key]
                 ELSE Undef
    IN IF Truthy(found) THEN found ELSE Str("Text")

\* return typeMap[type] || 'Text'
getFieldType(type) ==
    LET key == JSString(type)
        found == IF key \in DOMAIN typeMap THEN Str(typeMap[key])
                 ELSE IF key \in DOMAIN ObjectPrototype THEN ObjectPrototype[key]
                 ELSE Undef
    IN IF Truthy(found) THEN found ELSE Str("Text")

baseXml(field, fieldType) ==
    << "    <fields>",
       "        <fullName>" \o JSString(Prop(field, "name")) \o "__c</fullName>",
       "        <label>" \o JSString(Prop(field, "label")) \o "</label>",
       "        <type>" \o JSString(fieldType) \o "</type>" >>

\* switch (fieldType) compares with ===, so a fieldType that is no string
\* (an inherited member of typeMap) takes the default branch.
generateFieldXml(field, fieldType) ==
    CASE fieldType = Str("Text") ->
            baseXml(field, fieldType) \o
            << "        <length>255</length>",
               "        <required>false</required>",
               "    </fields>" >>
      [] fieldType = Str("TextArea") ->
            baseXml(field, fieldType) \o
            << "        <length>32768</length>",
               "        <visibleLines>3</visibleLines>",
               "        <required>false</required>",
               "    </fields>" >>
      [] fieldType = Str("Date") ->
            baseXml(field, fieldType) \o
            << "        <required>false</required>",
               "    </fields>" >>
      [] fieldType = Str("DateTime") ->
            baseXml(field, fieldType) \o
            << "        <required>false</required>",
               "    </fields>" >>
      [] fieldType = Str("Number") ->
            baseXml(field, fieldType) \o
            << "        <precision>18</precision>",
               "        <scale>0</scale>",
               "        <required>false</required>",
               "    </fields>" >>
      [] fieldType = Str("Checkbox") ->
            baseXml(field, fieldType) \o
            << "        <defaultValue>false</defaultValue>",
               "    </fields>" >>
      [] fieldType = Str("Picklist") ->
            baseXml(field, fieldType) \o
            << "        <valueSet>",
               "            <restricted>true</restricted>",
               "            <valueSetDefinition>",
               "                <sorted>false</sorted>",
               "                <value>",
               "                    <fullName>Option 1</fullName>",
               "                    <default>false</default>",
               "                    <label>Option 1</label>",
               "                </value>",
               "                <value>",
               "                    <fullName>Option 2</fullName>",
               "                    <default>false</default>",
               "                    <label>Option 2</label>",
               "                </value>",
               "            </valueSetDefinition>",
               "        </valueSet>",
               "        <required>false</required>",
               "    </fields>" >>
      [] OTHER ->
            baseXml(field, fieldType) \o
            << "        <length>255</length>",
               "        <required>false</required>",
               "    </fields>" >>

\* fields.map(...).join('\n'): the fragments' lines, one after the other.
RECURSIVE fieldElements(_)
fieldElements(fields) ==
    IF fields = <<>> THEN <<>>
    ELSE generateFieldXml(Head(fields), getFieldType(Prop(Head(fields), "type")))
         \o fieldElements(Tail(fields))

\* An empty join is the empty string: one empty line between the wrapper lines.
generateFieldsMetadata(fields) ==
    << "<?xml version=\"1.0\" encoding=\"UTF-8\"?>",
       "<CustomObject xmlns=\"http://soap.sforce.com/2006/04/metadata\">" >>
    \o (IF fields = <<>> THEN << "" >> ELSE fieldElements(fields))
    \o << "</CustomObject>" >>

generateObjectMetadata(objectName, fields) ==
    LET n == JSString(objectName)
    IN << "<?xml version=\"1.0\" encoding=\"UTF-8\"?>",
          "<CustomObject xmlns=\"http://soap.sforce.com/2006/04/metadata\">",
          "    <fullName>" \o n \o "__c</fullName>",
          "    <label>" \o n \o "</label>",
          "    <pluralLabel>" \o n \o "s</pluralLabel>",
          "    <nameField>",
          "        <type>AutoNumber</type>",
          "        <label>" \o n \o " Number</label>",
          "        <displayFormat>" \o n \o "-{0000}</displayFormat>",
          "    </nameField>",
          "    <sharingModel>ReadWrite</sharingModel>",
          "    <enableSharing>true</enableSharing>",
          "    <enableBulkApi>true</enableBulkApi>",
          "    <enableStreamingApi>true</enableStreamingApi>",
          "    <enableReports>true</enableReports>",
          "    <enableSearch>true</enableSearch>",
          "    <enableHistory>false</enableHistory>",
          "    <enableActivities>true</enableActivities>",
          "    <deploymentStatus>Deployed</deploymentStatus>",
          "</CustomObject>" >>

generatePackageXml(objectName) ==
    << "<?xml version=\"1.0\" encoding=\"UTF-8\"?>",
       "<Package xmlns=\"http://soap.sforce.com/2006/04/metadata\">",
       "    <types>",
       "        <members>" \o JSString(objectName) \o "__c</members>",
       "        <name>CustomObject</name>",
       "    </types>",
       "    <version>58.0</version>",
       "</Package>" >>

----------------------------------------------------------------------------
(* State. *)

NumRequests == 2
Requests == 1..NumRequests

VARIABLES
    body,       \* body[r]: req.body of request r (objectName, fields, orgAlias)
    pc,         \* pc[r]: "pending", "deploying" (exec launched), "exited", "done"
    dir,        \* the staging directory ./mdapioutput: [exists, files]
    generated,  \* generated[r]: the documents request r's handler generated, in order
    proc,       \* proc[r]: the deployment subprocess of request r
    responses,  \* responses[r]: the responses sent on res of request r, in order
    gpc, gField, gType, gXml   \* one application of getFieldType / generateFieldXml

vars == << body, pc, dir, generated, proc, responses, gpc, gField, gType, gXml >>
handlerVars == << body, pc, dir, generated, proc, responses >>
genVars == << gpc, gField, gType, gXml >>

----------------------------------------------------------------------------
(* The file system under ./mdapioutput.  files maps a normalised path to  *)
(* the lines written there.                                               *)

NoFiles == << >>
NoDir == [exists |-> FALSE, files |-> NoFiles]

existsSync(d) == d.exists

rmSyncKeepsFiles(d) == [exists |-> FALSE, files |-> d.files]

\* fs.rmSync(metadataDir, { recursive: true, force: true })
rmSync(d) == [exists |-> FALSE, files |-> NoFiles]

\* fs.mkdirSync(objectDir, { recursive: true })
mkdirSync(d) == [d EXCEPT !.exists = TRUE]

\* fs.writeFileSync(path, content): creates or replaces the file
writeFileSync(d, path, content) == [d EXCEPT !.files = (path :> content) @@ @]

\* path.join of './mdapioutput', 'unpackaged', 'objects' and of a file name
\* without path separators: the leading './' is normalised away.
metadataDir == "./mdapioutput"
unpackagedDir == "mdapioutput/unpackaged"
objectDir == unpackagedDir \o "/objects"
objectFilePath(objectName) == objectDir \o "/" \o JSString(objectName) \o "__c.object-meta.xml"
fieldsFilePath(objectName) == objectDir \o "/" \o JSString(objectName) \o "__c.fields-meta.xml"
packagePath == unpackagedDir \o "/package.xml"

deployCommand(orgAlias) ==
    "sfdx force:mdapi:deploy -d " \o metadataDir \o "/unpackaged -u "
    \o JSString(orgAlias) \o " --wait 10 --verbose"

----------------------------------------------------------------------------
(* The synchronous part of the handler: validation, staging, exec().      *)

MsgRequired == "Object name and fields array are required"
MsgOrgAlias == "orgAlias is required"
MsgFieldStructure == "Each field must have name, label, and type properties"

BadRequest(message) ==
    [status |-> 400, json |-> [error |-> "Bad Request", message |-> message]]

InternalError(message) ==
    [status |-> 500, json |-> [error |-> "Internal Server Error", message |-> message]]

\* for (let field of fields) { if (!field.name || !field.label || !field.type) ... }
\* "pass", "reject" (the 400 of the loop) or "throw" (TypeError on a null entry).
RECURSIVE ValidateFields(_)
ValidateFields(fields) ==
    IF fields = <<>> THEN "pass"
    ELSE LET field == Head(fields)
         IN IF PropThrows(field) THEN "throw"
            ELSE IF \/ ~Truthy(Prop(field, "name"))
                    \/ ~Truthy(Prop(field, "label"))
                    \/ ~Truthy(Prop(field, "type"))
                 THEN "reject"
                 ELSE ValidateFields(Tail(fields))

\* The points where the staging can throw: a file-system call or exec().
FailPoints == {"none", "rmSync", "mkdirSync", "writeObject", "writeFields", "writePackage", "exec"}

\* What the handler has done when it returns: the response it sent (none when
\* the subprocess was launched), the directory, the documents generated.
Responded(response, d, docs) ==
    [launched |-> FALSE, response |-> << response >>, dir |-> d, generated |-> docs]

\* The response sent at the launch instead of in exec's callback.
LaunchedAndAnswered(d, docs) ==
    [launched |-> TRUE,
     response |-> << [status |-> 200, json |-> [message |-> "Deployment started"]] >>,
     dir |-> d, generated |-> docs]

\* exec(deployCommand, callback) returned: the callback will respond.
Launched(d, docs) ==
    [launched |-> TRUE, response |-> << >>, dir |-> d, generated |-> docs]

Stage(b, d, fail) ==
    LET d1 == IF existsSync(d) THEN rmSync(d) ELSE d
        d2 == mkdirSync(d1)
        objectMetadata == generateObjectMetadata(b.objectName, b.fields.a)
        d3 == writeFileSync(d2, objectFilePath(b.objectName), objectMetadata)
        fieldsMetadata == generateFieldsMetadata(b.fields.a)
        d4 == writeFileSync(d3, fieldsFilePath(b.objectName), fieldsMetadata)
        packageXml == generatePackageXml(b.objectName)
        d5 == writeFileSync(d4, packagePath, packageXml)
    IN  IF fail = "rmSync" /\ existsSync(d)
            THEN Responded(InternalError("EPERM: operation not permitted, rm"), d, << >>)
        ELSE IF fail = "mkdirSync"
            THEN Responded(InternalError("EACCES: permission denied, mkdir"), d1, << >>)
        ELSE IF fail = "writeObject"
            THEN Responded(InternalError("ENOSPC: no space left on device, write"), d2,
                           << objectMetadata >>)
        ELSE IF fail = "writeFields"
            THEN Responded(InternalError("ENOSPC: no space left on device, write"), d3,
                           << objectMetadata, fieldsMetadata >>)
        ELSE IF fail = "writePackage"
            THEN Responded(InternalError("ENOSPC: no space left on device, write"), d4,
                           << objectMetadata, fieldsMetadata, packageXml >>)
        ELSE IF fail = "exec"
            THEN Responded(InternalError("spawn EAGAIN"), d5,
                           << objectMetadata, fieldsMetadata, packageXml >>)
        ELSE Launched(d5, << objectMetadata, fieldsMetadata, packageXml >>)

Handler(b, d, fail) ==
    IF ~Truthy(b.objectName) \/ ~Truthy(b.fields) \/ ~IsArray(b.fields)
        THEN Responded(BadRequest(MsgRequired), d, << >>)
    ELSE IF ~Truthy(b.orgAlias)
        THEN Responded(BadRequest(MsgOrgAlias), d, << >>)
    ELSE LET v == ValidateFields(b.fields.a)
         IN IF v = "reject"
                THEN Responded(BadRequest(MsgFieldStructure), d, << >>)
            ELSE IF v = "throw"
                THEN Responded(
                        InternalError("Cannot read properties of null (reading 'name')"),
                        d, << >>)
            ELSE Stage(b, d, fail)

----------------------------------------------------------------------------
(* The deployment subprocess and the exec callback.                       *)

NoProc == [state |-> "none", launches |-> 0, cmd |-> "", read |-> << >>,
           failed |-> FALSE, message |-> "", stdout |-> "", stderr |-> ""]

\* How a subprocess can end: error (non-null when the exit code is not 0 or
\* the spawn failed), the captured stdout and stderr.
Outcomes ==
    { [failed |-> FALSE, message |-> "", stdout |-> "Deploy Succeeded", stderr |-> ""],
      [failed |-> FALSE, message |-> "", stdout |-> "", stderr |-> "Warning: update available"],
      [failed |-> TRUE, message |-> "Command failed", stdout |-> "Deploying",
       stderr |-> "ERROR: deploy failed"],
      [failed |-> TRUE, message |-> "Command failed", stdout |-> "", stderr |-> ""] }

DeploymentFailed(p) ==
    [status |-> 500,
     json |-> [error |-> "Deployment Failed",
               message |-> IF p.stderr # "" THEN p.stderr ELSE p.message,
               details |-> p.stdout]]

\* The generated API name reported in place of the request's objectName.
DeployedReportsApiName(b, p) ==
    [status |-> 200,
     json |-> [message |-> "Metadata created and deployed successfully",
               objectName |-> Str(JSString(b.objectName) \o "__c"),
               fields |-> b.fields,
               output |-> p.stdout]]

Deployed(b, p) ==
    [status |-> 200,
     json |-> [message |-> "Metadata created and deployed successfully",
               objectName |-> b.objectName,
               fields |-> b.fields,
               output |-> p.stdout]]

\* The failure test made on stderr instead of error.
CallbackTestsStderr(b, p) == IF p.stderr # "" THEN DeploymentFailed(p) ELSE Deployed(b, p)

\* (error, stdout, stderr) => { if (error) { ... 500 ... } ... 200 ... }
Callback(b, p) == IF p.failed THEN DeploymentFailed(p) ELSE Deployed(b, p)

----------------------------------------------------------------------------
(* Actions. *)

\* app.post('/create-metadata', ...): the handler runs to its return (or to
\* its catch) in one turn of the event loop.
HandleRequest(r) ==
    /\ pc[r] = "pending"
    /\ \E fail \in FailPoints :
         LET h == Handler(body[r], dir, fail)
         IN /\ dir' = h.dir
            /\ generated' = [generated EXCEPT ![r] = h.generated]
            /\ responses' = [responses EXCEPT ![r] = @ \o h.response]
            /\ \/ /\ h.launched
                  /\ pc' = [pc EXCEPT ![r] = "deploying"]
                  /\ proc' = [proc EXCEPT ![r] = [@ EXCEPT !.state = "running",
                                   !.launches = @ + 1,
                                   !.cmd = deployCommand(body[r].orgAlias)]]
               \/ /\ ~h.launched
                  /\ pc' = [pc EXCEPT ![r] = "done"]
                  /\ UNCHANGED proc
    /\ UNCHANGED << body, genVars >>

\* The subprocess reads the descriptor files under ./mdapioutput/unpackaged.
ProcRead(r) ==
    /\ pc[r] = "deploying"
    /\ proc[r].read = << >>
    /\ proc' = [proc EXCEPT ![r].read = << dir.files >>]
    /\ UNCHANGED << body, pc, dir, generated, responses, genVars >>

\* The subprocess ends.
ProcExit(r) ==
    /\ pc[r] = "deploying"
    /\ \E o \in Outcomes :
         proc' = [proc EXCEPT ![r].state = "exited", ![r].failed = o.failed,
                              ![r].message = o.message, ![r].stdout = o.stdout,
                              ![r].stderr = o.stderr]
    /\ pc' = [pc EXCEPT ![r] = "exited"]
    /\ UNCHANGED << body, dir, generated, responses, genVars >>

\* The callback without the return in its error branch: it goes on to the
\* success response.
ExecCallbackFallsThrough(r) ==
    /\ pc[r] = "exited"
    /\ responses' = [responses EXCEPT ![r] =
            IF proc[r].failed
            THEN @ \o << DeploymentFailed(proc[r]), Deployed(body[r], proc[r]) >>
            ELSE Append(@, Deployed(body[r], proc[r]))]
    /\ pc' = [pc EXCEPT ![r] = "done"]
    /\ UNCHANGED << body, dir, generated, proc, genVars >>

\* exec's callback runs in a later turn of the event loop.
ExecCallback(r) ==
    /\ pc[r] = "exited"
    /\ responses' = [responses EXCEPT ![r] = Append(@, Callback(body[r], proc[r]))]
    /\ pc' = [pc EXCEPT ![r] = "done"]
    /\ UNCHANGED << body, dir, generated, proc, genVars >>

Next ==
    \E r \in Requests :
        \/ HandleRequest(r)
        \/ ProcRead(r)
        \/ ProcExit(r)
        \/ ExecCallback(r)

----------------------------------------------------------------------------
(* Requests. *)

\* Object names and org aliases are identifiers, as in test-api.js: no path
\* separator that path.join would resolve, no shell metacharacter.
Field(name, label, type) ==
    Obj([name |-> Str(name), label |-> Str(label), type |-> Str(type)])

Body(objectName, fields, orgAlias) ==
    [objectName |-> objectName, fields |-> fields, orgAlias |-> orgAlias]

BeatPlan ==
    Body(Str("Beat_Plan"),
         Arr(<< Field("Location", "Location", "Text"), Field("Date", "Date", "Date") >>),
         Str("dev"))

VisitLog ==
    Body(Str("Visit_Log"), Arr(<< Field("Notes", "Notes", "TextArea") >>), Str("qa"))

NoFieldsBody == Body(Str("Beat_Plan"), Undef, Str("dev"))

Bodies == { BeatPlan, VisitLog, NoFieldsBody }

\* What an earlier run of the server may have left in ./mdapioutput.
LeftOver ==
    [exists |-> TRUE,
     files |-> (objectDir \o "/Old__c.object-meta.xml") :> << "<CustomObject/>" >>]

IdleGen ==
    /\ gpc = "idle"
    /\ gField = Null
    /\ gType = Undef
    /\ gXml = << >>

Init ==
    /\ body \in [Requests -> Bodies]
    /\ pc = [r \in Requests |-> "pending"]
    /\ dir \in {NoDir, LeftOver}
    /\ generated = [r \in Requests |-> << >>]
    /\ proc = [r \in Requests |-> NoProc]
    /\ responses = [r \in Requests |-> << >>]
    /\ IdleGen

Spec == Init /\ [][Next]_vars

----------------------------------------------------------------------------
(* Requests one at a time: no request is handled until the response of    *)
(* every request handled before it has been sent.                         *)

HandleSerial(r) ==
    /\ \A q \in Requests \ {r} : pc[q] = "pending" \/ responses[q] # << >>
    /\ HandleRequest(r)

SerialNext ==
    \E r \in Requests :
        \/ HandleSerial(r)
        \/ ProcRead(r)
        \/ ProcExit(r)
        \/ ExecCallback(r)

SerialSpec == Init /\ [][SerialNext]_vars

----------------------------------------------------------------------------
(* The event loop runs every pending handler and every pending callback,  *)
(* and the deployment tool terminates (it is given --wait 10).            *)

FairInit ==
    /\ body \in [Requests -> {BeatPlan, NoFieldsBody}]
    /\ pc = [r \in Requests |-> "pending"]
    /\ dir = NoDir
    /\ generated = [r \in Requests |-> << >>]
    /\ proc = [r \in Requests |-> NoProc]
    /\ responses = [r \in Requests |-> << >>]
    /\ IdleGen

FairSpec ==
    /\ FairInit
    /\ [][Next]_vars
    /\ \A r \in Requests :
         /\ WF_vars(HandleRequest(r))
         /\ WF_vars(ProcExit(r))
         /\ WF_vars(ExecCallback(r))

----------------------------------------------------------------------------
(* The validation of one request over the shapes a JSON body can have,    *)
(* beside requests that deploy.                                           *)

ValObjectNames == { Undef, Str(""), Str("Beat_Plan") }
ValOrgAliases == { Undef, Str(""), Str("dev") }

Location == Field("Location", "Location", "Text")
NoType == Obj([name |-> Str("Date"), label |-> Str("Date")])
NoLabel == Obj([name |-> Str("Date"), type |-> Str("Date")])
EmptyName == Field("", "Notes", "TextArea")

ValFields ==
    { Undef, Null, Str("Location"), Obj([name |-> Str("Location")]),
      Arr(<< >>),
      Arr(<< Location >>),
      Arr(<< Location, NoType >>),
      Arr(<< NoLabel, Location >>),
      Arr(<< EmptyName >>),
      Arr(<< Str("Location") >>),
      Arr(<< Num(5) >>),
      Arr(<< Arr(<< >>) >>),
      Arr(<< Null >>),
      Arr(<< Location, Null >>),
      Arr(<< NoType, Null >>) }

ValBodies ==
    { Body(n, f, a) : n \in ValObjectNames, f \in ValFields, a \in ValOrgAliases }

ValInit ==
    /\ body \in { b \in [Requests -> ValBodies \cup {VisitLog}] :
                    \A r \in Requests \ {1} : b[r] = VisitLog }
    /\ pc = [r \in Requests |-> "pending"]
    /\ dir \in {NoDir, LeftOver}
    /\ generated = [r \in Requests |-> << >>]
    /\ proc = [r \in Requests |-> NoProc]
    /\ responses = [r \in Requests |-> << >>]
    /\ IdleGen

ValSpec == ValInit /\ [][Next]_vars

----------------------------------------------------------------------------
(* getFieldType and generateFieldXml applied to one field.                *)

GenNames == { "Location", "Is_Active" }
GenLabels == { "Location", "Is Active" }
GenTypes ==
    { "Text", "TextArea", "Date", "DateTime", "Number", "Checkbox", "Picklist",
      "Email", "Phone", "URL",
      "Currency", "text", "Url", "LongTextArea",
      "constructor", "toString", "__proto__" }

GenInit ==
    /\ gpc = "input"
    /\ gField \in { Field(n, l, t) : n \in GenNames, l \in GenLabels, t \in GenTypes }
    /\ gType = Undef
    /\ gXml = << >>
    /\ body = [r \in Requests |-> NoFieldsBody]
    /\ pc = [r \in Requests |-> "pending"]
    /\ dir = NoDir
    /\ generated = [r \in Requests |-> << >>]
    /\ proc = [r \in Requests |-> NoProc]
    /\ responses = [r \in Requests |-> << >>]

\* const fieldType = getFieldType(field.type)
GenResolve ==
    /\ gpc = "input"
    /\ gType' = getFieldType(Prop(gField, "type"))
    /\ gpc' = "resolved"
    /\ UNCHANGED << gField, gXml, handlerVars >>

\* const fieldXml = generateFieldXml(field, fieldType)
GenEmit ==
    /\ gpc = "resolved"
    /\ gXml' = generateFieldXml(gField, gType)
    /\ gpc' = "emitted"
    /\ UNCHANGED << gField, gType, handlerVars >>

GenNext == GenResolve \/ GenEmit

GenSpec == GenInit /\ [][GenNext]_vars

----------------------------------------------------------------------------
(* Properties of the field fragments (GenSpec).                           *)

SevenTypes == { "Text", "TextArea", "Date", "DateTime", "Number", "Checkbox", "Picklist" }

DeclaredType == gField.o.type.s

\* The four opening lines of a fragment for the field's own name and label
\* and the type element typeText.
Opening(typeText) ==
    << "    <fields>",
       "        <fullName>" \o gField.o.name.s \o "__c</fullName>",
       "        <label>" \o gField.o.label.s \o "</label>",
       "        <type>" \o typeText \o "</type>" >>

Closing == << "    </fields>" >>

ShortTextAttributes ==
    << "        <length>255</length>", "        <required>false</required>" >>

\* C3, as stated: for every declared type string outside the seven documented
\* types, the fragment is the short-text template: type Text, length 255,
\* required false, with the field's own name and label.
C3_UnrecognizedIsShortText ==
    (gpc = "emitted" /\ DeclaredType \notin SevenTypes)
        => gXml = Opening("Text") \o ShortTextAttributes \o Closing

\* The type element of a fragment whose declared type is outside the seven.
C3_TypeElement(t) ==
    CASE t = "Email" -> "Email"
      [] t = "Phone" -> "Phone"
      [] t = "URL" -> "Url"
      [] t \in DOMAIN ObjectPrototype -> JSString(ObjectPrototype[t])
      [] OTHER -> "Text"

\* C3, amended: for every declared type string outside the seven documented
\* types, the fragment has the field's own name and label and the short-text
\* attributes (length 255, required false); its type element is Text, except
\* that Email, Phone and URL, which the mapping table also holds, give Email,
\* Phone and Url, and a type naming a member inherited from Object.prototype
\* gives that member's string form.
C3_UnrecognizedHasShortTextAttributes ==
    (gpc = "emitted" /\ DeclaredType \notin SevenTypes)
        => gXml = Opening(C3_TypeElement(DeclaredType)) \o ShortTextAttributes \o Closing

\* A fragment was generated for a type the table does not hold.
C3_Witness ==
    /\ gpc = "emitted"
    /\ DeclaredType = "Currency"
    /\ gXml[4] = "        <type>Text</type>"
    /\ Len(gXml) = 7

PicklistValueSet ==
    << "        <valueSet>",
       "            <restricted>true</restricted>",
       "            <valueSetDefinition>",
       "                <sorted>false</sorted>",
       "                <value>",
       "                    <fullName>Option 1</fullName>",
       "                    <default>false</default>",
       "                    <label>Option 1</label>",
       "                </value>",
       "                <value>",
       "                    <fullName>Option 2</fullName>",
       "                    <default>false</default>",
       "                    <label>Option 2</label>",
       "                </value>",
       "            </valueSetDefinition>",
       "        </valueSet>" >>

Required == << "        <required>false</required>" >>

\* The attributes the table gives each of the seven types, the picklist's
\* being picklistAttributes.
C6_Table(t, picklistAttributes) ==
    CASE t = "Text" -> << "        <length>255</length>" >> \o Required
      [] t = "TextArea" ->
            << "        <length>32768</length>",
               "        <visibleLines>3</visibleLines>" >> \o Required
      [] t \in {"Date", "DateTime"} -> Required
      [] t = "Number" ->
            << "        <precision>18</precision>", "        <scale>0</scale>" >> \o Required
      [] t = "Checkbox" -> << "        <defaultValue>false</defaultValue>" >>
      [] t = "Picklist" -> picklistAttributes

\* C6, as stated: for each of the seven types the fragment carries the
\* resolved type and exactly the attributes of the table, the picklist's being
\* the restricted value set of 'Option 1' and 'Option 2' and nothing else.
C6_ExactlyTheTable ==
    (gpc = "emitted" /\ DeclaredType \in SevenTypes)
        => gXml = Opening(DeclaredType) \o C6_Table(DeclaredType, PicklistValueSet) \o Closing

\* C6, amended: as stated, except that the picklist fragment carries
\* required false after its value set.
C6_TableWithRequiredPicklist ==
    (gpc = "emitted" /\ DeclaredType \in SevenTypes)
        => gXml = Opening(DeclaredType)
                  \o C6_Table(DeclaredType, PicklistValueSet \o Required) \o Closing

\* A picklist fragment was generated.
C6_Witness ==
    /\ gpc = "emitted"
    /\ DeclaredType = "Picklist"
    /\ gXml[Len(gXml) - 1] = "        <required>false</required>"

----------------------------------------------------------------------------
(* Properties of the validation (ValSpec).                                *)

\* A field entry without a non-empty name, label or type; an entry that is
\* no object has none of them.
LacksProperty(entry) ==
    \/ ~Truthy(Prop(entry, "name"))
    \/ ~Truthy(Prop(entry, "label"))
    \/ ~Truthy(Prop(entry, "type"))

NameOrFieldsMissing(b) == ~Truthy(b.objectName) \/ ~Truthy(b.fields) \/ ~IsArray(b.fields)

OrgAliasMissing(b) == ~Truthy(b.orgAlias)

SomeEntryLacksProperty(b) ==
    IsArray(b.fields) /\ \E i \in 1..Len(b.fields.a) : LacksProperty(b.fields.a[i])

FailsValidation(b) ==
    NameOrFieldsMissing(b) \/ OrgAliasMissing(b) \/ SomeEntryLacksProperty(b)

\* The handler of request r returns in this step.
Handled(r) == pc[r] = "pending" /\ pc'[r] # "pending"

\* C1: a request that fails validation is answered with 400, and its handler
\* generates no descriptor, leaves the staging directory as it was and
\* launches no subprocess.
C1_InvalidIs400WithoutEffects ==
    [][\A r \in Requests :
          (Handled(r) /\ FailsValidation(body[r]))
              => /\ Len(responses'[r]) = 1
                 /\ responses'[r][1].status = 400
                 /\ generated'[r] = << >>
                 /\ dir' = dir
                 /\ proc'[r] = NoProc]_vars

\* C2: a definition that reaches descriptor generation has a non-empty object
\* name, a non-empty environment identifier, a non-empty fields sequence and
\* only entries with non-empty name, label and type.
C2_GeneratedFromCompleteDefinition ==
    \A r \in Requests :
        generated[r] # << >>
            => /\ Truthy(body[r].objectName)
               /\ Truthy(body[r].orgAlias)
               /\ IsArray(body[r].fields)
               /\ body[r].fields.a # << >>
               /\ \A i \in 1..Len(body[r].fields.a) : ~LacksProperty(body[r].fields.a[i])

\* The message of the earliest failing check, in the order object name and
\* fields, environment identifier, field entries; "" when no check fails.
EarliestFailure(b) ==
    IF NameOrFieldsMissing(b) THEN MsgRequired
    ELSE IF OrgAliasMissing(b) THEN MsgOrgAlias
    ELSE IF SomeEntryLacksProperty(b) THEN MsgFieldStructure
    ELSE ""

\* C7: the earliest failing check alone decides the response, a 400 with that
\* check's message, also when a field entry is not an object.
C7_EarliestFailingCheckDecides400 ==
    \A r \in Requests :
        (pc[r] = "done" /\ EarliestFailure(body[r]) # "")
            => responses[r] = << BadRequest(EarliestFailure(body[r])) >>

----------------------------------------------------------------------------
(* Properties of staging, deployment and response.                        *)

\* The three documents of a request at their places in the staging directory.
ThreeDocuments(b) ==
    (packagePath :> generatePackageXml(b.objectName))
    @@ (objectFilePath(b.objectName) :> generateObjectMetadata(b.objectName, b.fields.a))
    @@ (fieldsFilePath(b.objectName) :> generateFieldsMetadata(b.fields.a))

\* Request r was staged and its subprocess has ended and been answered.
Deployment(r) == pc[r] = "done" /\ proc[r].state = "exited"

\* C4: the response of a staged request is decided by the subprocess outcome:
\* without error 200 with the request's objectName, its fields unchanged and
\* the captured stdout; with an error 500 with the captured stderr, or the
\* error's message when stderr is empty, and the captured stdout.
C4_ResponseFollowsOutcome ==
    \A r \in Requests :
        Deployment(r) =>
            /\ Len(responses[r]) = 1
            /\ LET res == responses[r][1]
               IN IF proc[r].failed
                  THEN /\ res.status = 500
                       /\ res.json.message =
                            (IF proc[r].stderr # "" THEN proc[r].stderr ELSE proc[r].message)
                       /\ res.json.details = proc[r].stdout
                  ELSE /\ res.status = 200
                       /\ res.json.objectName = body[r].objectName
                       /\ res.json.fields = body[r].fields
                       /\ res.json.output = proc[r].stdout

\* A deployment failed with nothing on stderr and was answered with the
\* error's message.
C4_Witness ==
    \E r \in Requests :
        /\ Deployment(r)
        /\ proc[r].failed
        /\ proc[r].stderr = ""
        /\ responses[r][1].status = 500
        /\ responses[r][1].json.message = "Command failed"

\* C5: with requests handled one at a time, the staging directory holds
\* exactly the request's own three documents for as long as its subprocess
\* runs, so these are what the subprocess reads.
C5_SerialSubprocessReadsOwnDocuments ==
    \A r \in Requests :
        /\ proc[r].state = "running" => dir.files = ThreeDocuments(body[r])
        /\ proc[r].read # << >> => proc[r].read[1] = ThreeDocuments(body[r])

\* Two requests with different object names were deployed one after the
\* other, and the subprocess of each read the directory.
C5_Witness ==
    \E r, q \in Requests :
        /\ body[r].objectName # body[q].objectName
        /\ Deployment(q)
        /\ proc[q].read # << >>
        /\ proc[r].read # << >>
        /\ proc[r].read[1] # proc[q].read[1]

\* C8: when the handler of a validated request has staged and launched, the
\* directory holds exactly that request's three files; and the directory
\* changes in no step but the handler of a validated request: not while a
\* subprocess runs or ends, not when a response is sent, not when a request is
\* rejected.
C8_StagedExactlyThreeUntilNextStaging ==
    [][/\ \A r \in Requests :
            (Handled(r) /\ pc'[r] = "deploying")
                => /\ dir'.exists
                   /\ Cardinality(DOMAIN dir'.files) = 3
                   /\ dir'.files = ThreeDocuments(body[r])
       /\ dir' # dir => \E r \in Requests : Handled(r) /\ ~FailsValidation(body[r])]_vars

\* Two requests with different object names were deployed and answered, and
\* the directory still holds the three files of the later one and no other.
C8_Witness ==
    \E r, q \in Requests :
        /\ body[r].objectName # body[q].objectName
        /\ Deployment(r)
        /\ Deployment(q)
        /\ dir.files = ThreeDocuments(body[r])
        /\ DOMAIN dir.files =
             { packagePath, objectFilePath(body[r].objectName), fieldsFilePath(body[r].objectName) }

\* C9: a request whose subprocess read other documents than its own is still
\* answered, on success, with its own objectName and fields.
C9_ResponseReportsOwnRequestDespiteRace ==
    \A r \in Requests :
        ( /\ Deployment(r)
          /\ ~proc[r].failed
          /\ proc[r].read # << >>
          /\ proc[r].read[1] # ThreeDocuments(body[r]) )
            => /\ responses[r][1].status = 200
               /\ responses[r][1].json.objectName = body[r].objectName
               /\ responses[r][1].json.fields = body[r].fields

\* While the subprocess of request a ran, the handler of request b replaced
\* the directory: the subprocess of a read the documents of b, not its own,
\* and a was answered 200 with its own objectName.
C9_Witness ==
    \E a, b \in Requests :
        /\ a # b
        /\ Deployment(a)
        /\ ~proc[a].failed
        /\ pc[b] \in {"deploying", "exited", "done"}
        /\ generated[b] # << >>
        /\ proc[a].read = << ThreeDocuments(body[b]) >>
        /\ ThreeDocuments(body[b]) # ThreeDocuments(body[a])
        /\ responses[a][1].status = 200
        /\ responses[a][1].json.objectName = body[a].objectName

\* C10: every request gets exactly one response, of status 200, 400 or 500:
\* none before the handler or the callback has responded, one after, never a
\* second; a request answered by the handler itself has no subprocess; exec
\* runs at most once for a request; and every request is eventually answered.
C10_ExactlyOneResponse ==
    /\ [](\A r \in Requests :
            /\ Len(responses[r]) <= 1
            /\ \A i \in 1..Len(responses[r]) : responses[r][i].status \in {200, 400, 500}
            /\ pc[r] = "done" <=> Len(responses[r]) = 1
            /\ proc[r].launches <= 1
            /\ (pc[r] = "done" /\ generated[r] # << >> /\ proc[r].state = "none")
                    => responses[r][1].status = 500)
    /\ [][\A r \in Requests : responses[r] # << >> => responses'[r] = responses[r]]_vars
    /\ \A r \in Requests : <>(Len(responses[r]) = 1)

\* One request was answered 500 from the catch after its staging threw, and
\* another by the callback of its subprocess.
C10_Witness ==
    \E r, q \in Requests :
        /\ pc[r] = "done" /\ generated[r] # << >> /\ proc[r].state = "none"
        /\ Len(responses[r]) = 1 /\ responses[r][1].status = 500
        /\ Deployment(q) /\ Len(responses[q]) = 1

====
